---- MODULE Spec2Model ----
(***************************************************************************)
(* The client-side shopping cart of a_frontend_commerce.                   *)
(*                                                                         *)
(* Two revisions of the cart script are modelled side by side:             *)
(*   "cookie"  src/frontend/js/cart.js   (getCartAPI, addToCartAPI, ...)    *)
(*   "jwt"     src/unnamed/part_001      (getCart, updateCartItem, ...)     *)
(* A page loads exactly one of them; `variant` says which.                 *)
(*                                                                         *)
(* Every facade function is an async function: it runs synchronously up to *)
(* its fetch (the *Call actions), the request travels and is answered      *)
(* (ServerHandle, or NetworkFailure when the exchange cannot complete),    *)
(* and the code after the await runs when the response arrives (Deliver).  *)
(* `last` records what that code did; every other step resets it.          *)
(* Nothing in the scripts serialises calls, so any number of them can be   *)
(* in flight and their answers arrive in any order.                        *)
(*                                                                         *)
(* The REST backend is a different program; it is modelled from the        *)
(* natural-language specification (sections 3, 4.2, 6 and 8).              *)
(***************************************************************************)
EXTENDS Integers, Sequences, FiniteSets, TLC

\* ------------------------------------------------------------------ bounds
MaxCalls == 2      \* facade calls the page makes in one behaviour
MaxInFlight == 2   \* a page starts a call only while fewer are in flight
MaxProduct == 1     \* product ids 1..MaxProduct
MaxQty == 2         \* quantities passed by the page: -1..MaxQty
MaxLen == 3         \* cart length for the pure-function specification
MaxUnit == 2        \* prices and quantities for the pure-function specification

ProductIds == 1..MaxProduct
QtyInputs == (0 - 1)..MaxQty
\* JavaScript's null / undefined, kept apart from the empty string
Null == "null"
Undefined == "undefined"
\* the options a page passes: a chosen size and scent, or neither
OptionInputs == { [ size |-> "L", scent |-> "Rose" ],
                  [ size |-> Undefined, scent |-> Undefined ] }
PriceOf(productId) == 500 * productId

VARIABLES
    variant,      \* "cookie" (cart.js) or "jwt" (part_001)
    userToken,    \* localStorage['userToken']: "tok" or Null
    hasContainer, \* the page has an element #message-container
    hasBadge,     \* the page has an element #cart-count
    serverCart,   \* the backend's cart: sequence of line items
    nextItemId,   \* the backend's next line-item identifier
    calls,        \* the calls in flight, in the order they were issued
    nCalls,       \* facade calls started by the page so far
    msgs,         \* every notification element created so far: [state, by]
    container,    \* children of #message-container, first to last (indices of msgs)
    badge,        \* #cart-count: [text, hidden]
    location,     \* "page", or "auth.html" once the redirect has happened
    redirects,    \* pending setTimeout(... 'auth.html', 1000) timers
    last,         \* what the call that completed in the last step did and returned
    cartItems,    \* argument of calculateCartTotal (pure-function specification)
    total         \* << >>, or << its result >> once it has been called

vars == << variant, userToken, hasContainer, hasBadge, serverCart, nextItemId,
           calls, nCalls, msgs, container, badge, location, redirects, last,
           cartItems, total >>

\* ----------------------------------------------------------------- helpers
RECURSIVE SeqSum(_)
SeqSum(s) == IF s = << >> THEN 0 ELSE Head(s) + SeqSum(Tail(s))

RECURSIVE Filter(_, _)
\* the subsequence of s whose items are not in the set drop
Filter(s, drop) ==
    IF s = << >> THEN << >>
    ELSE IF Head(s) \in drop THEN Filter(Tail(s), drop)
         ELSE << Head(s) >> \o Filter(Tail(s), drop)

Range(s) == { s[i] : i \in DOMAIN s }

\* JavaScript's  a || b  on strings (null, undefined and "" are falsy)
OrElse(a, b) == IF a \in {Null, Undefined, ""} THEN b ELSE a

\* JavaScript's  a || b  on numbers (0 is falsy)
OrElseNum(a, b) == IF a = 0 THEN b ELSE a

\* ------------------------------------------------- the backend (from spec)
\* identity key of a line item: productId + size + scent
KeyOf(x) == << x.productId, x.size, x.scent >>

\* the backend stores an absent option as null
Stored(v) == IF v = Undefined THEN Null ELSE v

\* POST /api/cart, /api/cart/add: add-or-increment merge by identity key
ServerUpsert(cart, id, body) ==
    LET key == << body.productId, Stored(body.size), Stored(body.scent) >>
        hit == { i \in DOMAIN cart : KeyOf(cart[i]) = key }
    IN  IF hit # {}
        THEN [ i \in DOMAIN cart |->
                 IF i \in hit
                 THEN [ cart[i] EXCEPT !.quantity = @ + body.quantity ]
                 ELSE cart[i] ]
        ELSE Append(cart, [ itemId |-> id,
                            productId |-> body.productId,
                            size |-> key[2], scent |-> key[3],
                            price |-> body.price,
                            quantity |-> body.quantity ])

\* PUT /api/cart/update: set a line's quantity; a quantity <= 0 removes it
ServerUpdate(cart, body) ==
    IF body.quantity <= 0
    THEN Filter(cart, { e \in Range(cart) : e.itemId = body.itemId })
    ELSE [ i \in DOMAIN cart |->
             IF cart[i].itemId = body.itemId
             THEN [ cart[i] EXCEPT !.quantity = body.quantity ]
             ELSE cart[i] ]

\* DELETE /api/cart/:productId (options in the body) and
\* DELETE /api/cart/remove/:itemId: remove the line; no line, no change
ServerRemove(cart, req) ==
    IF req.path = "/api/cart/remove/:itemId"
    THEN Filter(cart, { e \in Range(cart) : e.itemId = req.id })
    ELSE Filter(cart, { e \in Range(cart) :
                          KeyOf(e) = << req.id, Stored(req.body.size),
                                        Stored(req.body.scent) >> })

\* DELETE /api/cart/clear
ServerClear(cart) == << >>

\* what a 2xx answer to req does to the cart
ServerApply(cart, id, req) ==
    CASE req.method = "GET" -> cart
      [] req.method = "POST" -> ServerUpsert(cart, id, req.body)
      [] req.method = "PUT" -> ServerUpdate(cart, req.body)
      [] req.method = "DELETE" /\ req.path = "/api/cart/clear" -> ServerClear(cart)
      [] OTHER -> ServerRemove(cart, req)

\* the message field of a non-2xx body ("" when the body has none)
ServerMessages == {"Out of stock", ""}

\* ------------------------------------------------------------ client data
NoBody == [ productId |-> 0, price |-> 0, quantity |-> 0,
            size |-> Undefined, scent |-> Undefined, itemId |-> 0 ]
NoReq == [ method |-> "none", path |-> "none", id |-> 0,
           auth |-> << >>, body |-> NoBody ]

RetUndefined == [ kind |-> "undefined", bool |-> FALSE, items |-> << >> ]
RetBool(b) == [ kind |-> "bool", bool |-> b, items |-> << >> ]
RetArray(s) == [ kind |-> "array", bool |-> FALSE, items |-> s ]

\* what the code after the await does: the value returned, whether the
\* promise is rejected, the notification shown (type, text), whether
\* 'cartUpdated' is dispatched, updateCartCount() and fetchCart() are called,
\* userToken is removed, and the badge is set (to count)
Done(ret, shown, text) ==
    [ ret |-> ret, threw |-> FALSE, shown |-> shown, text |-> text,
      dispatched |-> FALSE, refresh |-> FALSE, refetch |-> FALSE,
      evict |-> FALSE, setBadge |-> FALSE, count |-> 0 ]

NoLast == [ fn |-> "none", status |-> "none", json |-> TRUE,
            redirect |-> FALSE, res |-> Done(RetUndefined, "none", << >>) ]

\* what the page passed: product, quantity and options, or a line-item id
NoArgs == [ productId |-> 0, quantity |-> 0, size |-> Undefined,
            scent |-> Undefined, itemId |-> 0 ]
Args(productId, quantity, size, scent) ==
    [ productId |-> productId, quantity |-> quantity, size |-> size,
      scent |-> scent, itemId |-> 0 ]
ItemArgs(itemId, quantity) ==
    [ NoArgs EXCEPT !.itemId = itemId, !.quantity = quantity ]

\* a call whose request has just been sent
NewCall(fn, req, args) ==
    [ fn |-> fn, req |-> req, args |-> args, stage |-> "sent",
      status |-> "none", json |-> TRUE, message |-> "",
      before |-> << >>, after |-> << >> ]

\* the variables no action of the page changes
page == << variant, hasContainer, hasBadge >>
pure == << cartItems, total >>

\* s without its i-th element
RemoveAt(s, i) == SubSeq(s, 1, i - 1) \o SubSeq(s, i + 1, Len(s))

\* ---------------------------------------------------- Notification Utility
\* container.prepend(msgBox) in cart.js, container.appendChild(msgBox) in part_001
Attach(cont, n) == IF variant = "cookie" THEN << n >> \o cont ELSE Append(cont, n)

\* displayMessage creating its element whether or not the container exists
displayMessageUnguarded(ui) ==
    [ msgs |-> Append(ui.msgs, [ state |-> "visible", by |-> "displayMessage" ]),
      container |-> Attach(ui.container, Len(ui.msgs) + 1) ]

\* displayMessage(message, type): with no #message-container only a console
\* line (nothing changes on the page); otherwise a new element, attached and
\* visible, with its timer pending
displayMessage(ui) ==
    IF ~hasContainer
    THEN ui
    ELSE [ msgs |-> Append(ui.msgs, [ state |-> "visible", by |-> "displayMessage" ]),
           container |-> Attach(ui.container, Len(ui.msgs) + 1) ]

\* the notification shown by a completing call (none when shown = "none")
Show(res) ==
    LET ui == [ msgs |-> msgs, container |-> container ]
        new == IF res.shown = "none" THEN ui ELSE displayMessage(ui)
    IN  /\ msgs' = new.msgs
        /\ container' = new.container

\* the timer leaving the element as visible as it was
FadeStepStay(m) == [ state |-> "visible", by |-> "timer" ]

\* the timer removing the element at once, without the fade
FadeStepSkip(m) == [ state |-> "removed", by |-> "timer" ]

\* the outer timer of displayMessage (5000 ms in cart.js, 3000 ms in
\* part_001): the element starts to fade
FadeStep(m) == [ state |-> "fading", by |-> "timer" ]

FadeTimer(n) ==
    /\ location = "page"
    /\ msgs[n].state = "visible"
    /\ msgs' = [ msgs EXCEPT ![n] = FadeStep(@) ]
    /\ last' = NoLast
    /\ UNCHANGED << page, pure, userToken, serverCart, nextItemId, calls,
                    nCalls, container, badge, location, redirects >>

\* cart.js: the nested setTimeout(() => msgBox.remove(), 300)
RemoveTimer(n) ==
    /\ location = "page"
    /\ variant = "cookie"
    /\ msgs[n].state = "fading"
    /\ msgs' = [ msgs EXCEPT ![n] = [ state |-> "removed", by |-> "timer" ] ]
    /\ container' = Filter(container, {n})
    /\ last' = NoLast
    /\ UNCHANGED << page, pure, userToken, serverCart, nextItemId, calls,
                    nCalls, badge, location, redirects >>

\* part_001: the 'transitionend' listener added by the timer removes the element
TransitionEnd(n) ==
    /\ location = "page"
    /\ variant = "jwt"
    /\ msgs[n].state = "fading"
    /\ msgs' = [ msgs EXCEPT ![n] = [ state |-> "removed", by |-> "transitionend" ] ]
    /\ container' = Filter(container, {n})
    /\ last' = NoLast
    /\ UNCHANGED << page, pure, userToken, serverCart, nextItemId, calls,
                    nCalls, badge, location, redirects >>

\* ------------------------------------------------- starting a facade call
CanCall ==
    /\ location = "page"
    /\ nCalls < MaxCalls
    /\ Len(calls) < MaxInFlight

\* a call that sends its request twice
IssueTwice(fn, req, args) ==
    /\ calls' = Append(Append(calls, NewCall(fn, req, args)), NewCall(fn, req, args))
    /\ nCalls' = nCalls + 1
    /\ last' = NoLast
    /\ UNCHANGED << page, pure, userToken, serverCart, nextItemId, msgs,
                    container, badge, location, redirects >>

\* the call runs up to its fetch: the request is in flight
Issue(fn, req, args) ==
    /\ calls' = Append(calls, NewCall(fn, req, args))
    /\ nCalls' = nCalls + 1
    /\ last' = NoLast
    /\ UNCHANGED << page, pure, userToken, serverCart, nextItemId, msgs,
                    container, badge, location, redirects >>

\* the call returns before any fetch
Return(fn, res, redirect) ==
    /\ nCalls' = nCalls + 1
    /\ Show(res)
    /\ redirects' = IF redirect THEN redirects + 1 ELSE redirects
    /\ last' = [ fn |-> fn, status |-> "none",
                 json |-> TRUE, redirect |-> redirect, res |-> res ]
    /\ UNCHANGED << page, pure, userToken, serverCart, nextItemId, calls,
                    badge, location >>

\* ------------------------------------------------ part_001 (JWT revision)
\* getAuthHeaders building the header from whatever localStorage returns
getAuthHeadersUnchecked == << "Bearer", userToken >>

\* getAuthHeaders(): the headers, or null (here << >>) when no token is held;
\* in that case it also shows a message and schedules the redirect
getAuthHeaders == IF userToken = Null THEN << >> ELSE << "Bearer", userToken >>

NotLoggedIn(ret) ==
    Done(ret, "error", << "You must be logged in to manage your cart." >>)

GetRequest(headers) ==
    [ method |-> "GET", path |-> "/api/cart", id |-> 0, auth |-> headers,
      body |-> NoBody ]

\* payload of updateCartItem: productId, name, price, image, quantity, ...options
CartPayload(productId, price, quantity, options) ==
    [ productId |-> productId, price |-> price, quantity |-> quantity,
      size |-> options.size, scent |-> options.scent, itemId |-> 0 ]

UpsertRequest(headers, payload) ==
    [ method |-> "POST", path |-> "/api/cart", id |-> 0, auth |-> headers,
      body |-> payload ]

\* DELETE /api/cart/${productId} with the options as body
RemoveRequest(headers, productId, options) ==
    [ method |-> "DELETE", path |-> "/api/cart/:productId", id |-> productId,
      auth |-> headers,
      body |-> [ NoBody EXCEPT !.size = options.size, !.scent = options.scent ] ]

\* the clear sent to a path the backend does not know as "clear"
ClearRequestWrongPath(headers) ==
    [ method |-> "DELETE", path |-> "/api/cart/all", id |-> 0,
      auth |-> headers, body |-> NoBody ]

ClearRequest(headers) ==
    [ method |-> "DELETE", path |-> "/api/cart/clear", id |-> 0,
      auth |-> headers, body |-> NoBody ]

\* updateCartItem delegates to removeFromCart when  quantity < 1
DelegatesToRemove(quantity) == quantity < 1

getCart ==
    /\ CanCall
    /\ variant = "jwt"
    /\ IF getAuthHeaders = << >>
       THEN Return("getCart", NotLoggedIn(RetArray(<< >>)), TRUE)
       ELSE Issue("getCart", GetRequest(getAuthHeaders), NoArgs)

\* updateCartItem(productId, name, price, image, quantity, options)
updateCartItem(productId, quantity, options) ==
    /\ CanCall
    /\ variant = "jwt"
    /\ IF getAuthHeaders = << >>
       THEN Return("updateCartItem", NotLoggedIn(RetBool(FALSE)), TRUE)
       ELSE IF DelegatesToRemove(quantity)
            THEN Issue("removeFromCart",
                       RemoveRequest(getAuthHeaders, productId, options),
                       Args(productId, quantity, options.size, options.scent))
            ELSE Issue("updateCartItem",
                       UpsertRequest(getAuthHeaders,
                           CartPayload(productId, PriceOf(productId),
                                       quantity, options)),
                       Args(productId, quantity, options.size, options.scent))

\* addToCart(product, quantity = 1, options = {}) passes product.id and the
\* rest on to updateCartItem
addToCart(product, quantity, options) ==
    updateCartItem(product.id, quantity, options)

removeFromCart(productId, options) ==
    /\ CanCall
    /\ variant = "jwt"
    /\ IF getAuthHeaders = << >>
       THEN Return("removeFromCart", NotLoggedIn(RetBool(FALSE)), TRUE)
       ELSE Issue("removeFromCart",
                  RemoveRequest(getAuthHeaders, productId, options),
                  Args(productId, 0, options.size, options.scent))

clearCart ==
    /\ CanCall
    /\ variant = "jwt"
    /\ IF getAuthHeaders = << >>
       THEN Return("clearCart", NotLoggedIn(RetBool(FALSE)), TRUE)
       ELSE Issue("clearCart", ClearRequest(getAuthHeaders), NoArgs)

\* setTimeout(() => { window.location.href = 'auth.html'; }, 1000)
RedirectTimer ==
    /\ location = "page"
    /\ redirects > 0
    /\ location' = "auth.html"
    /\ redirects' = redirects - 1
    /\ last' = NoLast
    /\ UNCHANGED << page, pure, userToken, serverCart, nextItemId, calls,
                    nCalls, msgs, container, badge >>

\* the code after the await in part_001; the catch branch runs when the
\* fetch is rejected or response.json() throws (a body that is not JSON)
Caught(c) == c.status = "netfail" \/ ~c.json

getCartDone(c) ==
    IF Caught(c)
    THEN Done(RetArray(<< >>), "error", << "Could not connect to cart service." >>)
    ELSE IF c.status = "ok"
         THEN Done(RetArray(c.after), "none", << >>)
         ELSE Done(RetArray(<< >>), "none", << >>)

\* updateCartItem showing a fixed text instead of the server's message
updateCartItemDoneGeneric(c) ==
    IF Caught(c)
    THEN Done(RetBool(FALSE), "error", << "Network error updating cart." >>)
    ELSE IF c.status = "ok"
         THEN [ Done(RetBool(TRUE), "success", << "Cart updated! ", c.message >>)
                  EXCEPT !.dispatched = TRUE ]
         ELSE Done(RetBool(FALSE), "error",
                   << "Error updating cart: ", "Server error." >>)

updateCartItemDone(c) ==
    IF Caught(c)
    THEN Done(RetBool(FALSE), "error", << "Network error updating cart." >>)
    ELSE IF c.status = "ok"
         THEN [ Done(RetBool(TRUE), "success", << "Cart updated! ", c.message >>)
                  EXCEPT !.dispatched = TRUE ]
         ELSE Done(RetBool(FALSE), "error",
                   << "Error updating cart: ", OrElse(c.message, "Server error.") >>)

\* removeFromCart with a catch block that only logs
removeFromCartDoneSilent(c) ==
    IF Caught(c)
    THEN Done(RetBool(FALSE), "none", << >>)
    ELSE IF c.status = "ok"
         THEN [ Done(RetBool(TRUE), "info", << "Item removed from cart." >>)
                  EXCEPT !.dispatched = TRUE ]
         ELSE Done(RetBool(FALSE), "error",
                   << "Error removing item: ", OrElse(c.message, "Server error.") >>)

removeFromCartDone(c) ==
    IF Caught(c)
    THEN Done(RetBool(FALSE), "error", << "Network error removing item." >>)
    ELSE IF c.status = "ok"
         THEN [ Done(RetBool(TRUE), "info", << "Item removed from cart." >>)
                  EXCEPT !.dispatched = TRUE ]
         ELSE Done(RetBool(FALSE), "error",
                   << "Error removing item: ", OrElse(c.message, "Server error.") >>)

clearCartDone(c) ==
    IF Caught(c)
    THEN Done(RetBool(FALSE), "error", << "Network error clearing cart." >>)
    ELSE IF c.status = "ok"
         THEN [ Done(RetBool(TRUE), "info", << "Cart cleared successfully." >>)
                  EXCEPT !.dispatched = TRUE ]
         ELSE Done(RetBool(FALSE), "error",
                   << "Error clearing cart: ", OrElse(c.message, "Server error.") >>)

\* ------------------------------------------- cart.js (cookie/session revision)
NoHeaders == << >>

\* addToCartAPI with the quantity of the item ignored
AddPayloadOne(item) ==
    [ productId |-> item.productId, price |-> item.price, quantity |-> 1,
      size |-> OrElse(item.size, Null), scent |-> OrElse(item.scent, Null),
      itemId |-> 0 ]

\* payload of addToCartAPI(item)
AddPayload(item) ==
    [ productId |-> item.productId, price |-> item.price,
      quantity |-> OrElseNum(item.quantity, 1),
      size |-> OrElse(item.size, Null), scent |-> OrElse(item.scent, Null),
      itemId |-> 0 ]

AddRequest(payload) ==
    [ method |-> "POST", path |-> "/api/cart/add", id |-> 0, auth |-> NoHeaders,
      body |-> payload ]

UpdateRequest(itemId, newQuantity) ==
    [ method |-> "PUT", path |-> "/api/cart/update", id |-> 0, auth |-> NoHeaders,
      body |-> [ NoBody EXCEPT !.itemId = itemId, !.quantity = newQuantity ] ]

\* removeFromCartAPI deleting the first line whatever the id
RemoveRequestFirst(itemId) ==
    [ method |-> "DELETE", path |-> "/api/cart/remove/:itemId", id |-> 1,
      auth |-> NoHeaders, body |-> NoBody ]

RemoveRequestAPI(itemId) ==
    [ method |-> "DELETE", path |-> "/api/cart/remove/:itemId", id |-> itemId,
      auth |-> NoHeaders, body |-> NoBody ]

getCartAPI ==
    /\ CanCall
    /\ variant = "cookie"
    /\ Issue("getCartAPI", GetRequest(NoHeaders), NoArgs)

addToCartAPI(item) ==
    /\ CanCall
    /\ variant = "cookie"
    /\ Issue("addToCartAPI", AddRequest(AddPayload(item)),
             Args(item.productId, item.quantity, item.size, item.scent))

updateCartItemAPI(itemId, newQuantity) ==
    /\ CanCall
    /\ variant = "cookie"
    /\ Issue("updateCartItemAPI", UpdateRequest(itemId, newQuantity),
             ItemArgs(itemId, newQuantity))

removeFromCartAPI(itemId) ==
    /\ CanCall
    /\ variant = "cookie"
    /\ Issue("removeFromCartAPI", RemoveRequestAPI(itemId), ItemArgs(itemId, 0))

\* clearCartAPI asks confirm(...) first and returns when the user declines
clearCartAPI(confirmed) ==
    /\ CanCall
    /\ variant = "cookie"
    /\ IF ~confirmed
       THEN Return("clearCartAPI", Done(RetUndefined, "none", << >>), FALSE)
       ELSE Issue("clearCartAPI", ClearRequest(NoHeaders), NoArgs)

\* updateCartCount returns at once on a page without #cart-count
updateCartCount ==
    /\ CanCall
    /\ variant = "cookie"
    /\ IF ~hasBadge
       THEN Return("updateCartCount", Done(RetUndefined, "none", << >>), FALSE)
       ELSE Issue("updateCartCount", GetRequest(NoHeaders), NoArgs)

\* getCartAPI with response.json() outside the try block
getCartAPIDoneThrows(c) ==
    IF c.status = "netfail"
    THEN Done(RetArray(<< >>), "none", << >>)
    ELSE IF c.status = "ok"
         THEN IF c.json THEN Done(RetArray(c.after), "none", << >>)
              ELSE [ Done(RetUndefined, "none", << >>) EXCEPT !.threw = TRUE ]
         ELSE IF c.status = "unauth"
              THEN [ Done(RetArray(<< >>), "error",
                          << "Session expired. Please log in again." >>)
                       EXCEPT !.evict = TRUE ]
              ELSE Done(RetArray(<< >>), "none", << >>)

\* the code after the await in cart.js
getCartAPIDone(c) ==
    IF c.status = "netfail"
    THEN Done(RetArray(<< >>), "none", << >>)
    ELSE IF c.status = "ok"
         THEN IF c.json THEN Done(RetArray(c.after), "none", << >>)
              ELSE Done(RetArray(<< >>), "none", << >>)
         ELSE IF c.status = "unauth"
              THEN [ Done(RetArray(<< >>), "error",
                          << "Session expired. Please log in again." >>)
                       EXCEPT !.evict = TRUE ]
              ELSE Done(RetArray(<< >>), "none", << >>)

\* addToCartAPI without the call of updateCartCount()
addToCartAPIDoneNoRefresh(c) ==
    IF Caught(c)
    THEN Done(RetUndefined, "error",
              << "Network error. Check your backend connection." >>)
    ELSE IF c.status = "ok"
         THEN Done(RetUndefined, "success", << "Added to cart." >>)
         ELSE Done(RetUndefined, "error",
                   << "Failed to add item: ", OrElse(c.message, "Server error.") >>)

addToCartAPIDone(c) ==
    IF Caught(c)
    THEN Done(RetUndefined, "error",
              << "Network error. Check your backend connection." >>)
    ELSE IF c.status = "ok"
         THEN [ Done(RetUndefined, "success", << "Added to cart." >>)
                  EXCEPT !.refresh = TRUE ]
         ELSE Done(RetUndefined, "error",
                   << "Failed to add item: ", OrElse(c.message, "Server error.") >>)

updateCartItemAPIDone(c) ==
    IF Caught(c)
    THEN Done(RetUndefined, "error", << "Network error. Could not update cart." >>)
    ELSE IF c.status = "ok"
         THEN [ Done(RetUndefined, "none", << >>)
                  EXCEPT !.refetch = TRUE, !.refresh = TRUE ]
         ELSE [ Done(RetUndefined, "error",
                     << "Update failed: ", OrElse(c.message, "Server error.") >>)
                  EXCEPT !.refetch = TRUE ]

removeFromCartAPIDone(c) ==
    IF Caught(c)
    THEN Done(RetUndefined, "error", << "Network error. Could not remove item." >>)
    ELSE IF c.status = "ok"
         THEN [ Done(RetUndefined, "info", << "Item removed from cart." >>)
                  EXCEPT !.refetch = TRUE, !.refresh = TRUE ]
         ELSE Done(RetUndefined, "error",
                   << "Removal failed: ", OrElse(c.message, "Server error.") >>)

clearCartAPIDone(c) ==
    IF Caught(c)
    THEN Done(RetUndefined, "error", << "Network error. Could not clear cart." >>)
    ELSE IF c.status = "ok"
         THEN [ Done(RetUndefined, "info", << "Cart cleared successfully." >>)
                  EXCEPT !.refetch = TRUE, !.refresh = TRUE ]
         ELSE Done(RetUndefined, "error",
                   << "Clear cart failed: ", OrElse(c.message, "Server error.") >>)

\* totalItems = cartItems.reduce((acc, item) => acc + item.quantity, 0)
TotalItems(items) == SeqSum([ i \in DOMAIN items |-> items[i].quantity ])

\* updateCartCount after  await window.getCartAPI()
updateCartCountDone(c) ==
    [ getCartAPIDone(c) EXCEPT !.ret = RetUndefined, !.setBadge = TRUE,
                               !.count = TotalItems(getCartAPIDone(c).ret.items) ]

\* the continuation of the function that is waiting for the answer
Continuation(c) ==
    CASE c.fn = "getCart" -> getCartDone(c)
      [] c.fn = "updateCartItem" -> updateCartItemDone(c)
      [] c.fn = "removeFromCart" -> removeFromCartDone(c)
      [] c.fn = "clearCart" -> clearCartDone(c)
      [] c.fn = "getCartAPI" -> getCartAPIDone(c)
      [] c.fn = "addToCartAPI" -> addToCartAPIDone(c)
      [] c.fn = "updateCartItemAPI" -> updateCartItemAPIDone(c)
      [] c.fn = "removeFromCartAPI" -> removeFromCartAPIDone(c)
      [] c.fn = "clearCartAPI" -> clearCartAPIDone(c)
      [] OTHER -> updateCartCountDone(c)

\* ----------------------------------------------------- the exchange itself
\* the backend answers: 2xx (the request is applied), 401 or another non-2xx
\* status (it is not); the body is JSON or not
ServerHandle(i, status, json, message) ==
    /\ calls[i].stage = "sent"
    /\ LET c == calls[i]
           after == IF status = "ok"
                    THEN ServerApply(serverCart, nextItemId, c.req)
                    ELSE serverCart
       IN  /\ serverCart' = after
           /\ nextItemId' = IF Len(after) > Len(serverCart)
                            THEN nextItemId + 1 ELSE nextItemId
           /\ calls' = [ calls EXCEPT ![i] =
                 [ c EXCEPT !.stage = "answered", !.status = status,
                            !.json = json, !.message = message,
                            !.before = serverCart, !.after = after ] ]
    /\ last' = NoLast
    /\ UNCHANGED << page, pure, userToken, nCalls, msgs, container, badge,
                    location, redirects >>

\* the exchange cannot complete: fetch is rejected, the request was not served
NetworkFailure(i) ==
    /\ calls[i].stage = "sent"
    /\ calls' = [ calls EXCEPT ![i] =
          [ @ EXCEPT !.stage = "answered", !.status = "netfail",
                     !.json = FALSE, !.before = serverCart,
                     !.after = serverCart ] ]
    /\ last' = NoLast
    /\ UNCHANGED << page, pure, userToken, serverCart, nextItemId, nCalls,
                    msgs, container, badge, location, redirects >>

\* the awaiting function resumes and runs to its end
Deliver(i) ==
    /\ location = "page"
    /\ calls[i].stage = "answered"
    /\ LET c == calls[i]
           res == Continuation(c)
           rest == RemoveAt(calls, i)
       IN  /\ Show(res)
           /\ userToken' = IF res.evict THEN Null ELSE userToken
           /\ badge' = IF res.setBadge
                       THEN [ text |-> res.count, hidden |-> ~(res.count > 0) ]
                       ELSE badge
           /\ calls' = IF res.refresh /\ hasBadge
                       THEN Append(rest, NewCall("updateCartCount",
                                                 GetRequest(NoHeaders), NoArgs))
                       ELSE rest
           /\ last' = [ fn |-> c.fn, status |-> c.status,
                        json |-> c.json, redirect |-> FALSE, res |-> res ]
    /\ UNCHANGED << page, pure, serverCart, nextItemId, nCalls, location,
                    redirects >>

\* ---------------------------------------------------- calculateCartTotal
\* cartItems.reduce((acc, item) => acc + (item.price * item.quantity), 0)
RECURSIVE Reduce(_, _, _)
Reduce(items, i, acc) ==
    IF i > Len(items) THEN acc
    ELSE Reduce(items, i + 1, acc + items[i].price * items[i].quantity)

\* the total with the quantities left out
calculateCartTotalPrices(items) == SeqSum([ i \in DOMAIN items |-> items[i].price ])

calculateCartTotal(items) == Reduce(items, 1, 0)

CalculateCartTotal ==
    /\ total = << >>
    /\ total' = << calculateCartTotal(cartItems) >>
    /\ UNCHANGED << page, userToken, serverCart, nextItemId, calls, nCalls,
                    msgs, container, badge, location, redirects, last,
                    cartItems >>

\* --------------------------------------------------------- specification
\* the cart the backend holds when the page loads: empty, or a line kept from
\* an earlier visit
InitialCarts ==
    { << >>,
      << [ itemId |-> 1, productId |-> 1, size |-> "L", scent |-> "Rose",
           price |-> PriceOf(1), quantity |-> 1 ] >> }

Init ==
    /\ variant \in {"cookie", "jwt"}
    /\ hasContainer \in BOOLEAN
    /\ userToken \in IF variant = "jwt" THEN {"tok", Null} ELSE {"tok"}
    /\ hasBadge \in IF variant = "cookie" THEN BOOLEAN ELSE {FALSE}
    /\ serverCart \in InitialCarts
    /\ nextItemId = Len(serverCart) + 1
    /\ calls = << >>
    /\ nCalls = 0
    /\ msgs = << >>
    /\ container = << >>
    /\ badge = [ text |-> 0, hidden |-> TRUE ]
    /\ location = "page"
    /\ redirects = 0
    /\ last = NoLast
    /\ cartItems = << >>
    /\ total = << >>

\* what the backend can answer with a JSON body
JsonAnswers ==
    { << "ok", "Item saved" >>, << "unauth", "Not authorized" >> }
        \cup { << "fail", m >> : m \in ServerMessages }

Next ==
    \/ getCart
    \/ \E p \in ProductIds, q \in QtyInputs, o \in OptionInputs :
          updateCartItem(p, q, o)
    \/ \E p \in ProductIds, q \in QtyInputs, o \in OptionInputs :
          addToCart([ id |-> p, price |-> PriceOf(p) ], q, o)
    \/ \E p \in ProductIds, o \in OptionInputs : removeFromCart(p, o)
    \/ clearCart
    \/ RedirectTimer
    \/ getCartAPI
    \/ \E p \in ProductIds, q \in QtyInputs, o \in OptionInputs :
          addToCartAPI([ productId |-> p, price |-> PriceOf(p), quantity |-> q,
                         size |-> o.size, scent |-> o.scent ])
    \/ \E id \in 1..nextItemId, q \in QtyInputs : updateCartItemAPI(id, q)
    \/ \E id \in 1..nextItemId : removeFromCartAPI(id)
    \/ \E b \in BOOLEAN : clearCartAPI(b)
    \/ updateCartCount
    \/ \E i \in DOMAIN calls, a \in JsonAnswers : ServerHandle(i, a[1], TRUE, a[2])
    \/ \E i \in DOMAIN calls, st \in {"ok", "fail"} : ServerHandle(i, st, FALSE, "")
    \/ \E i \in DOMAIN calls : NetworkFailure(i)
    \/ \E i \in DOMAIN calls : Deliver(i)
    \/ \E n \in DOMAIN msgs : FadeTimer(n)
    \/ \E n \in DOMAIN msgs : RemoveTimer(n)
    \/ \E n \in DOMAIN msgs : TransitionEnd(n)

Spec == Init /\ [][Next]_vars

\* calculateCartTotal alone, on every cart of up to MaxLen lines
Lines == [ price : (0..MaxUnit) \cup {PriceOf(1)}, quantity : 0..MaxUnit ]

InitTotal ==
    /\ variant = "cookie"
    /\ hasContainer = TRUE
    /\ userToken = Null
    /\ hasBadge = TRUE
    /\ serverCart = << >>
    /\ nextItemId = 1
    /\ calls = << >>
    /\ nCalls = 0
    /\ msgs = << >>
    /\ container = << >>
    /\ badge = [ text |-> 0, hidden |-> TRUE ]
    /\ location = "page"
    /\ redirects = 0
    /\ last = NoLast
    /\ cartItems \in UNION { [ 1..n -> Lines ] : n \in 0..MaxLen }
    /\ total = << >>

NextTotal == CalculateCartTotal

SpecTotal == InitTotal /\ [][NextTotal]_vars

\* the notifications alone: a page with #message-container whose calls can
\* fail, and the timers and events of displayMessage and getAuthHeaders,
\* which the browser's event loop runs once they are due
InitLive ==
    /\ Init
    /\ hasContainer
    /\ ~hasBadge
    /\ serverCart = << >>

NextLive ==
    \/ getCart
    \/ clearCart
    \/ RedirectTimer
    \/ getCartAPI
    \/ \E b \in BOOLEAN : clearCartAPI(b)
    \/ \E i \in DOMAIN calls, a \in JsonAnswers : ServerHandle(i, a[1], TRUE, a[2])
    \/ \E i \in DOMAIN calls : NetworkFailure(i)
    \/ \E i \in DOMAIN calls : Deliver(i)
    \/ \E n \in DOMAIN msgs : FadeTimer(n)
    \/ \E n \in DOMAIN msgs : RemoveTimer(n)
    \/ \E n \in DOMAIN msgs : TransitionEnd(n)

SpecLive ==
    /\ InitLive
    /\ [][NextLive]_vars
    /\ WF_vars(RedirectTimer)
    /\ \A n \in 1..MaxCalls :
          /\ WF_vars(n \in DOMAIN msgs /\ FadeTimer(n))
          /\ WF_vars(n \in DOMAIN msgs /\ RemoveTimer(n))
          /\ WF_vars(n \in DOMAIN msgs /\ TransitionEnd(n))

\* the badge alone: cart.js on a page with #cart-count whose badge shows the
\* cart (updateCartCount has run on load); the page adds and removes, and
\* every request is answered 2xx with a JSON body
InitBadge ==
    /\ variant = "cookie"
    /\ hasContainer = FALSE
    /\ userToken = "tok"
    /\ hasBadge = TRUE
    /\ serverCart \in InitialCarts
    /\ nextItemId = Len(serverCart) + 1
    /\ calls = << >>
    /\ nCalls = 0
    /\ msgs = << >>
    /\ container = << >>
    /\ badge = [ text |-> TotalItems(serverCart),
                 hidden |-> ~(TotalItems(serverCart) > 0) ]
    /\ location = "page"
    /\ redirects = 0
    /\ last = NoLast
    /\ cartItems = << >>
    /\ total = << >>

NextBadge ==
    \/ \E p \in ProductIds, q \in 1..MaxQty, o \in OptionInputs :
          addToCartAPI([ productId |-> p, price |-> PriceOf(p), quantity |-> q,
                         size |-> o.size, scent |-> o.scent ])
    \/ \E id \in 1..nextItemId : removeFromCartAPI(id)
    \/ \E i \in DOMAIN calls : ServerHandle(i, "ok", TRUE, "Item saved")
    \/ \E i \in DOMAIN calls : Deliver(i)

SpecBadge == InitBadge /\ [][NextBadge]_vars

\* ------------------------------------------------------------- properties
Answered == { calls[i] : i \in { j \in DOMAIN calls : calls[j].stage = "answered" } }

\* the identity key of what the page passed
ArgKey(a) == << a.productId, Stored(a.size), Stored(a.scent) >>

LinesWithKey(cart, key) == { i \in DOMAIN cart : KeyOf(cart[i]) = key }

RECURSIVE SumQuantity(_, _)
SumQuantity(cart, idx) ==
    IF idx = {} THEN 0
    ELSE LET i == CHOOSE j \in idx : TRUE
         IN  cart[i].quantity + SumQuantity(cart, idx \ {i})

QtyOfKey(cart, key) == SumQuantity(cart, LinesWithKey(cart, key))

AddFns == {"updateCartItem", "addToCartAPI"}
RemoveFns == {"removeFromCart", "removeFromCartAPI"}
ClearFns == {"clearCart", "clearCartAPI"}

\* C1: an add of quantity q >= 1 that the backend answers 2xx leaves exactly
\* one line with the key the page passed, and its quantity is what the cart
\* held for that key before plus q; so a run of such adds with one key ends
\* with one line holding their sum.
C1_AddsMergeByKey ==
    \A c \in Answered :
        (c.fn \in AddFns /\ c.status = "ok" /\ c.args.quantity >= 1) =>
            /\ Cardinality(LinesWithKey(c.after, ArgKey(c.args))) = 1
            /\ QtyOfKey(c.after, ArgKey(c.args))
                 = QtyOfKey(c.before, ArgKey(c.args)) + c.args.quantity

\* quantity 2 and then quantity 1 of product 1, L, Rose at 500: one line of
\* quantity 3, total 1500
C1_Witness ==
    \E c \in Answered :
        /\ c.fn \in AddFns /\ c.status = "ok" /\ c.args.quantity = 1
        /\ ArgKey(c.args) = << 1, "L", "Rose" >>
        /\ Len(c.before) = 1 /\ c.before[1].quantity = 2
        /\ Len(c.after) = 1 /\ c.after[1].quantity = 3
        /\ calculateCartTotal(c.after) = 1500

\* the page's identifier matches no line of the cart
Absent(c, cart) ==
    IF c.fn = "removeFromCartAPI"
    THEN \A e \in Range(cart) : e.itemId # c.args.itemId
    ELSE \A e \in Range(cart) : KeyOf(e) # ArgKey(c.args)

\* C7: a removal whose identifier matches no line leaves the backend's cart
\* as it was, and the removal function does not throw.
C7_RemoveAbsentIsNoOp ==
    /\ \A c \in Answered :
          (c.fn \in RemoveFns /\ Absent(c, c.before)) =>
              c.after = c.before /\ ~Continuation(c).threw
    /\ last.fn \in RemoveFns => ~last.res.threw

C7_Witness ==
    \E c \in Answered :
        /\ c.fn \in RemoveFns /\ c.status = "ok"
        /\ c.before # << >> /\ Absent(c, c.before)
        /\ c.after = c.before

\* the sum of price * quantity over the lines, in no particular order
RECURSIVE SumLines(_, _)
SumLines(items, idx) ==
    IF idx = {} THEN 0
    ELSE LET i == CHOOSE j \in idx : TRUE
         IN  items[i].price * items[i].quantity + SumLines(items, idx \ {i})

\* C8: calculateCartTotal returns the sum of price * quantity over all lines,
\* and 0 for the empty cart.
C8_TotalIsSum ==
    total # << >> =>
        /\ total[1] = SumLines(cartItems, DOMAIN cartItems)
        /\ cartItems = << >> => total[1] = 0

C8_Witness ==
    /\ total = << 1500 >>
    /\ Len(cartItems) = 2

FetchFns == {"getCart", "getCartAPI"}
MutatorFns == AddFns \cup RemoveFns \cup ClearFns \cup {"updateCartItemAPI"}

\* C2: no line of the backend's cart has a quantity <= 0.
C2_NoNonPositiveQuantity ==
    \A e \in Range(serverCart) : e.quantity >= 1

\* C3: when the GET of the cart is answered 401, the fetch removes
\* userToken, starts the redirect to the login page and returns [].
C3_Unauthorized ==
    (last.fn \in FetchFns /\ last.status = "unauth") =>
        /\ userToken = Null
        /\ (redirects > 0 \/ location = "auth.html")
        /\ last.res.ret = RetArray(<< >>)

\* C4 as stated: every mutation answered 2xx dispatches 'cartUpdated'.
C4_AlwaysBroadcast ==
    (last.fn \in MutatorFns /\ last.status = "ok") => last.res.dispatched

\* C4: a mutation answered 2xx with a JSON body triggers the refresh before
\* it returns: part_001 dispatches 'cartUpdated'; cart.js dispatches no event
\* and calls updateCartCount() itself.
C4_RefreshOnSuccess ==
    (last.fn \in MutatorFns /\ last.status = "ok" /\ last.json) =>
        IF variant = "jwt"
        THEN last.res.dispatched /\ ~last.res.refresh
        ELSE last.res.refresh /\ ~last.res.dispatched

C4_Witness ==
    /\ variant = "cookie" /\ hasBadge
    /\ last.fn = "addToCartAPI" /\ last.status = "ok" /\ last.json
    /\ \E i \in DOMAIN calls :
          calls[i].fn = "updateCartCount" /\ calls[i].stage = "sent"

C6_AlwaysEmpty ==
    last.fn \in ClearFns => serverCart = << >>

\* C6: a clear that the backend answers 2xx leaves its cart empty, whether
\* or not it was empty before, and clearCart does not throw.
C6_ClearEmpties ==
    /\ \A c \in Answered :
          (c.fn \in ClearFns /\ c.status = "ok") => c.after = << >>
    /\ last.fn \in ClearFns => ~last.res.threw

\* a second call clears a cart that had a line and is empty already
C6_Witness ==
    /\ nCalls = 2 /\ nextItemId > 1
    /\ \E c \in Answered :
          /\ c.fn \in ClearFns /\ c.status = "ok"
          /\ c.before = << >> /\ c.after = << >>

\* a notification's step: visible to fading by the timer; fading to removed
\* by cause
Forward(old, new, cause) ==
    \/ old.state = "visible" /\ new = [ state |-> "fading", by |-> "timer" ]
    \/ old.state = "fading" /\ new = [ state |-> "removed", by |-> cause ]

\* C9 as stated: created, visible, fading, removed in this order, every step
\* driven by a timer.
C9_TimerDriven ==
    [][ /\ Len(msgs') >= Len(msgs)
        /\ \A n \in DOMAIN msgs' :
              IF n \in DOMAIN msgs
              THEN msgs'[n] # msgs[n] => Forward(msgs[n], msgs'[n], "timer")
              ELSE msgs'[n].state = "visible" ]_vars

\* C9: a notification is created and made visible by displayMessage, starts
\* to fade by its timer and is removed after that, by a second timer in
\* cart.js and by the element's 'transitionend' event in part_001; no step is
\* skipped or taken back.
C9_Linear ==
    [][ /\ Len(msgs') >= Len(msgs)
        /\ \A n \in DOMAIN msgs' :
              IF n \in DOMAIN msgs
              THEN msgs'[n] # msgs[n] =>
                      Forward(msgs[n], msgs'[n],
                              IF variant = "cookie" THEN "timer"
                              ELSE "transitionend")
              ELSE msgs'[n] = [ state |-> "visible", by |-> "displayMessage" ] ]_vars

C9_Witness ==
    \E n \in DOMAIN msgs :
        msgs[n] = [ state |-> "removed", by |-> "transitionend" ]

\* the exchange of the completed call failed
Failed(l) ==
    l.status \in {"unauth", "fail", "netfail"} \/ (l.status = "ok" /\ ~l.json)

\* the value a function returns when it fails
Fallback(l) ==
    IF l.fn \in FetchFns THEN l.res.ret = RetArray(<< >>)
    ELSE IF variant = "jwt" THEN l.res.ret = RetBool(FALSE)
         ELSE l.res.ret = RetUndefined

\* the failures of a fetch that are only logged to the console
Silent(l) ==
    \/ l.fn \in {"getCartAPI", "updateCartCount"} /\ l.status # "unauth"
    \/ l.fn = "getCart" /\ l.status \in {"unauth", "fail"} /\ l.json

MutatingIn(cs) ==
    { i \in DOMAIN cs : cs[i].req.method \in {"POST", "PUT", "DELETE"} }

\* C11 as stated: at most one mutating request is in flight in every state.
C11_OneMutationInFlight ==
    Cardinality(MutatingIn(calls)) <= 1

\* C11: a step puts at most one more mutating request in flight, and only a
\* step in which the page calls a facade function does; nothing serialises
\* the calls, so the requests of several calls can be in flight together.
C11_OnePerAction ==
    [][ /\ Cardinality(MutatingIn(calls')) <= Cardinality(MutatingIn(calls)) + 1
        /\ Cardinality(MutatingIn(calls')) > Cardinality(MutatingIn(calls)) =>
              nCalls' = nCalls + 1 ]_vars

\* an add and a clear are both waiting for their answers
C11_Witness ==
    /\ Len(calls) = 2
    /\ calls[1].fn \in AddFns /\ calls[1].stage = "sent"
    /\ calls[2].fn \in ClearFns /\ calls[2].stage = "sent"

\* C12: when a fetch of the cart fails other than by a 401 (non-2xx answer
\* or network failure), it returns [] and the badge shows what it showed
\* before; updateCartCount is the fetch made for the badge.
C12_FailedFetchLeavesUI ==
    [][ (/\ last'.fn \in FetchFns \cup {"updateCartCount"}
         /\ last'.status \in {"fail", "netfail"}) =>
            /\ last'.fn \in FetchFns => last'.res.ret = RetArray(<< >>)
            /\ badge' = badge ]_vars

\* C13: a mutation answered non-2xx with a JSON body that has a message
\* shows an error notification ending with that message, dispatches no
\* 'cartUpdated' and starts no badge refresh, reports the failure (by the
\* notification; part_001 also returns false, cart.js returns undefined as
\* always), and changes neither the badge nor userToken.
C13_ServerMessageShown ==
    \A c \in Answered :
        (/\ c.fn \in MutatorFns
         /\ c.status \in {"fail", "unauth"} /\ c.json /\ c.message # "") =>
            LET res == Continuation(c)
            IN  /\ res.shown = "error"
                /\ Len(res.text) = 2 /\ res.text[2] = c.message
                /\ ~res.dispatched /\ ~res.refresh
                /\ res.ret = IF variant = "jwt" THEN RetBool(FALSE)
                              ELSE RetUndefined
                /\ ~res.setBadge /\ ~res.evict /\ ~res.threw
                /\ c.after = c.before

\* "Out of stock" has been shown for an add, on a page with a container
C13_Witness ==
    /\ last.fn \in AddFns /\ last.status = "fail" /\ last.json
    /\ last.res.shown = "error" /\ last.res.text[2] = "Out of stock"
    /\ hasContainer /\ msgs # << >>
    /\ serverCart # << >>

\* notification n is a child of #message-container
InContainer(n) == n \in Range(container)

\* C14 as stated: every notification put into the container is eventually
\* removed from it.
C14_EventuallyRemoved ==
    \A n \in 1..MaxCalls : InContainer(n) ~> ~InContainer(n)

\* C14: while the page stays loaded, every notification put into the
\* container is eventually removed from it; a navigation to auth.html (the
\* redirect of getAuthHeaders, due after 1000 ms) ends the page's timers, so
\* the notification shown just before it is never removed by the script.
C14_RemovedWhilePageLives ==
    \A n \in 1..MaxCalls :
        InContainer(n) ~> (~InContainer(n) \/ location # "page")

\* the first of two notifications is gone, the second is still shown
C14_Witness ==
    /\ Len(msgs) = 2
    /\ msgs[1].state = "removed" /\ ~InContainer(1)
    /\ msgs[2].state = "visible" /\ InContainer(2)

\* C15: no POST is in flight for a call whose quantity is <= 0; such a call
\* is carried out as the removal (a DELETE for that item).
C15_NoUpsertOfNonPositive ==
    \A i \in DOMAIN calls :
        /\ calls[i].req.method = "POST" => calls[i].args.quantity >= 1
        /\ (calls[i].fn \in AddFns /\ calls[i].args.quantity <= 0) =>
              calls[i].req.method = "DELETE"

\* C16: on a page without #message-container a call of displayMessage
\* creates no notification element, so there is none whose timers could be
\* pending, and the calling function does not throw.
C16_ConsoleOnly ==
    ~hasContainer =>
        /\ msgs = << >> /\ container = << >>
        /\ last.res.shown # "none" => ~last.res.threw

\* displayMessage has just been called with an error on such a page
C16_Witness ==
    /\ ~hasContainer
    /\ last.res.shown = "error" /\ last.res.text # << >>
    /\ msgs = << >>

JwtFns == {"getCart", "updateCartItem", "removeFromCart", "clearCart"}

\* C17: in part_001, while no userToken is held no request is in flight, and
\* a call made then returns its fallback ([] or false) with the redirect to
\* auth.html scheduled; every request in flight carries
\* Authorization: Bearer <the held token>.
C17_TokenGuard ==
    variant = "jwt" =>
        /\ userToken = Null => calls = << >>
        /\ \A i \in DOMAIN calls :
              userToken # Null /\ calls[i].req.auth = << "Bearer", userToken >>
        /\ (last.fn \in JwtFns /\ userToken = Null) =>
              /\ last.status = "none"
              /\ Fallback(last)
              /\ last.redirect /\ redirects > 0

\* updateCartItem (or addToCart) called without a token
C17_Witness ==
    /\ variant = "jwt" /\ userToken = Null
    /\ last.fn = "updateCartItem" /\ last.res.ret = RetBool(FALSE)
    /\ last.redirect /\ redirects = 2
    /\ calls = << >>

\* C18: in cart.js, once calls have been made and no request remains in
\* flight, the badge shows the sum of the quantities of the backend's cart
\* and is hidden exactly when that sum is 0.
C18_BadgeShowsCart ==
    (variant = "cookie" /\ hasBadge /\ nCalls >= 1 /\ calls = << >>) =>
        /\ badge.text = TotalItems(serverCart)
        /\ badge.hidden <=> (TotalItems(serverCart) = 0)

====
